---- MODULE Spec2Model ----
(***************************************************************************)
(* Two small runtimes of the blog's posts:                                 *)
(*   - MyReact, the array-of-stateHolders useState of                      *)
(*     src/src/pages/post-1/UseStateArr.tsx;                               *)
(*   - useRequest, the closure-based polling request of the post-1 code    *)
(*     (src/unnamed/part_004 and part_005, the same function body).        *)
(* Each has its own specification (MyReactSpec, UseRequestSpec); the       *)
(* variables of the other runtime stay at their initial values.            *)
(* TwoSessionsSpec runs two useRequest sessions side by side.              *)
(*   - the useEffect-based useRequest of src/src/content/closures.md       *)
(*     (UseEffectSpec); VariantsSpec runs either variant of useRequest.    *)
(***************************************************************************)
EXTENDS Integers, Sequences, FiniteSets, TLC

VARIABLES
  \* ---- MyReact (UseStateArr.tsx lines 5-40)
  stateHolderArr,     \* MyReact.stateHolderArr: the state of each stateHolder, in push order
  currentStateIndex,  \* MyReact.currentStateIndex
  component,          \* MyReact.component (0 is null)
  stack,              \* render passes in progress (the JS call stack), innermost last
  last,               \* history: the last MyReact operation and what it saw
  mounts,             \* history: number of MyReact.render calls so far
  mounted,            \* history: the component passed to the latest MyReact.render call
  sets,               \* history: number of setState invocations so far
  renders,            \* history: number of render(...) calls made to the render host
  \* ---- useRequest (part_004 / part_005 lines 6-36)
  timeoutId,          \* the closure's timeoutId (0: undefined or 0, no timer has that id)
  currentUrl,         \* the closure's currentUrl ("" is undefined)
  inflight,           \* makeRequest invocations suspended at `await axios.get(url)`
  timers,             \* pending setTimeout timers of the window (this session's, and the peer's)
  nreq,               \* history: number of makeRequest invocations so far
  ntimer,             \* number of setTimeout calls so far (the last handle handed out)
  calls,              \* history: the caller's start/stop calls, in order
  ev,                 \* history: the last useRequest event and what it did
  peer,               \* closure state of a second session (a separate useRequest call)
  \* ---- useRequest, staleness check before the callback (polling-requests.md lines 177-207)
  guarded,            \* that variant's timeoutId, currentUrl, fetches, timers, run on the same inputs
  \* ---- useRequest, useEffect variant (closures.md lines 276-332)
  hookUrl,            \* the hook's url state ("" initially)
  data,               \* the hook's data state: the fetch whose response it holds (0 is null)
  nrender,            \* renders of the hook so far; the latest render is render nrender
  tids,               \* tids[n]: the `let timeoutId` variable of render n
  effects,            \* the effects run so far, in order, each with its `cancelled` flag
  fetches,            \* the variant's makeRequest invocations suspended at the await
  etimers,            \* the variant's pending setTimeout timers
  nfetch,             \* history: number of makeRequest invocations of the variant so far
  nhandle,            \* number of setTimeout calls of the variant so far
  hev                 \* history: the last event of the variant and what it did

reactVars == <<stateHolderArr, currentStateIndex, component, stack, last, mounts,
               mounted, sets, renders>>
pollVars == <<timeoutId, currentUrl, inflight, timers, nreq, ntimer, calls, ev, peer,
              guarded>>
hookVars == <<hookUrl, data, nrender, tids, effects, fetches, etimers, nfetch, nhandle, hev>>
vars == <<reactVars, pollVars, hookVars>>

(***************************************************************************)
(* Bounds                                                                  *)
(***************************************************************************)
MaxHooks == 2      \* components make 1..MaxHooks useState calls per pass
MaxMounts == 2     \* MyReact.render is called at most this many times
MaxSets == 3       \* setState is invoked at most this many times
MaxCalls == 4      \* start/stop calls made by the caller of a useRequest session
MaxReq == 5        \* makeRequest invocations (fetches issued) of a session
MaxTimers == 3     \* setTimeout calls of a session
MaxJointReq == 3   \* fetches issued by two sessions together
MaxJointTimers == 2 \* timers scheduled by two sessions together
MaxJointCalls == 2 \* start/stop calls of the first of two sessions
MaxReMounts == 2   \* MyReact.render calls when setState may be called inside a body
MaxReSets == 1     \* setState invocations when setState may be called inside a body
MaxEffects == 2    \* effects run (url changes) of the useEffect variant
MaxFetches == 4    \* makeRequest invocations of the useEffect variant
MaxHandles == 3    \* setTimeout calls of the useEffect variant

\* State values are opaque to MyReact (stored, returned, never inspected): two
\* of them tell a slot's value from another's and from an initialValue.
Values == {0, 1}
\* A component is identified by the number of useState calls its body makes on
\* every pass; Counter (UseStateArr.tsx lines 42-61) makes two.
Components == 1 .. MaxHooks
Counter == 2
\* The initial value Counter passes to both of its useState calls.
CounterInit == 0
NoComponent == 0
\* A component that calls useState inside a conditional block: the number of
\* calls its body makes differs from pass to pass (the call-order violation the
\* state-hook post warns about, state-hook.md line 372).
Conditional == MaxHooks + 1

\* The numbers of useState calls a pass of component c can make.
CallCounts(c) == IF c = Conditional THEN 1 .. MaxHooks ELSE {c}

(***************************************************************************)
(* MyReact                                                                 *)
(***************************************************************************)
Top == stack[Len(stack)]
Idle == stack = <<>>

NoOp == [op |-> "none"]

\* A new render pass of component c: render(MyReact.component) starts running
\* the component's body, which has made no useState call yet.
NewPass(trig, c) == [trig |-> trig, comp |-> c, log |-> <<>>]

InitReact ==
  /\ stateHolderArr = <<>>
  /\ currentStateIndex = 0
  /\ component = NoComponent
  /\ stack = <<>>
  /\ last = NoOp
  /\ mounts = 0
  /\ mounted = NoComponent
  /\ sets = 0
  /\ renders = 0

\* Mutant of UseStateArr: an existing stateHolder is re-initialised.
UseStateArrOverwrite(arr, i, init) ==
  IF i = Len(arr) THEN Append(arr, init) ELSE [arr EXCEPT ![i + 1] = init]

\* The array after useState ran at cursor i with initialValue init: a new
\* stateHolder is pushed iff the cursor equals the length (lines 16-31).
UseStateArr(arr, i, init) ==
  IF i = Len(arr) THEN Append(arr, init) ELSE arr

\* Mutant of UseStateCursor: the cursor skips a stateHolder.
UseStateCursorSkips(i) == i + 2

\* Mutant of UseStateCursor: the cursor is not advanced.
UseStateCursorStuck(i) == i

\* The cursor after a useState call (line 33).
UseStateCursor(i) == i + 1

\* MyReact.useState(initialValue), the next call of the innermost running pass.
\* When the cursor is past the end, stateHolderArr[currentStateIndex] is
\* undefined and reading .state of it throws: the guard i <= Len keeps that out,
\* and the cursor never gets there (it is at most the length).
UseState(init) ==
  /\ ~Idle
  /\ \E n \in CallCounts(Top.comp) : Len(Top.log) < n
  /\ currentStateIndex <= Len(stateHolderArr)
  /\ LET i == currentStateIndex
         arr == UseStateArr(stateHolderArr, i, init)
         ret == arr[i + 1]
         call == [idx |-> i, ret |-> ret]
     IN /\ stateHolderArr' = arr
        /\ currentStateIndex' = UseStateCursor(i)
        /\ stack' = [stack EXCEPT ![Len(stack)].log = Append(@, call)]
        /\ last' = [op |-> "useState", call |-> Len(Top.log) + 1, idx |-> i,
                    init |-> init, ret |-> ret,
                    created |-> Len(arr) # Len(stateHolderArr),
                    afterSet |-> last.op = "setState"]
  /\ UNCHANGED <<component, mounts, mounted, sets, renders, pollVars, hookVars>>

\* The component body returns: the innermost pass is complete and control goes
\* back to whoever called render (setState, MyReact.render).
PassDone ==
  /\ ~Idle
  /\ Len(Top.log) \in CallCounts(Top.comp)
  /\ stack' = SubSeq(stack, 1, Len(stack) - 1)
  /\ last' = [op |-> "return"]
  /\ UNCHANGED <<stateHolderArr, currentStateIndex, component, mounts, mounted, sets,
                 renders, pollVars, hookVars>>

\* Mutant of SetStateCursor: setState does not reset the cursor.
SetStateCursorKept == currentStateIndex

\* The cursor setState leaves for the render it triggers (line 22).
SetStateCursor == 0

\* Mutant of SetStateArr: the setter writes the stateHolder under the parked
\* cursor (the last one served) instead of the one it was created with.
SetStateArrAtCursor(arr, s, newValue) == [arr EXCEPT ![currentStateIndex] = newValue]

\* The array after the setState of stateHolder s (1-based position) ran (line 21).
SetStateArr(arr, s, newValue) == [arr EXCEPT ![s] = newValue]

\* Mutant of SetStateRenders: setState skips the render when the value it is
\* given is the one its slot already stores.
SetStateRendersIfChanged(arr, s, newValue) == IF arr[s] = newValue THEN 0 ELSE 1

\* The number of render(MyReact.component) calls one setState makes (line 23),
\* whatever the slot stores and the value given.
SetStateRenders(arr, s, newValue) == 1

\* stateHolder.setState(newValue) of the s-th stateHolder (lines 19-24): write
\* the state, reset the cursor, render(MyReact.component).
SetStateCall(s, newValue) ==
  /\ s \in 1 .. Len(stateHolderArr)
  /\ component # NoComponent
  /\ sets < MaxSets
  /\ stateHolderArr' = SetStateArr(stateHolderArr, s, newValue)
  /\ currentStateIndex' = SetStateCursor
  /\ stack' = stack \o [i \in 1 .. SetStateRenders(stateHolderArr, s, newValue) |->
                         NewPass([op |-> "setState", slot |-> s, val |-> newValue,
                                  before |-> stateHolderArr], component)]
  /\ last' = [op |-> "setState", slot |-> s, val |-> newValue]
  /\ sets' = sets + 1
  /\ renders' = renders + SetStateRenders(stateHolderArr, s, newValue)
  /\ UNCHANGED <<component, mounts, mounted, pollVars, hookVars>>

\* setState invoked from an event handler such as Counter's increment1 (lines
\* 46-51), when no pass is running.
SetState(s, newValue) == Idle /\ SetStateCall(s, newValue)

\* setState invoked from inside the component body, while a pass is running:
\* the render it calls is a nested pass, which runs to its end before the
\* interrupted pass goes on.
SetStateInBody(s, newValue) ==
  /\ ~Idle
  /\ SetStateCall(s, newValue)

\* Mutant of MountComponent: MyReact.render does not store its argument.
MountComponentKept(c) == component

\* The value MyReact.render(c) stores in MyReact.component (line 37).
MountComponent(c) == c

\* MyReact.render(component) (lines 36-39), called from top-level code: store
\* the component, then render(MyReact.component), the stored one.
Mount(c) ==
  /\ Idle
  /\ mounts < MaxMounts
  /\ component' = MountComponent(c)
  /\ stack' = Append(stack, NewPass([op |-> "render"], component'))
  /\ mounts' = mounts + 1
  /\ mounted' = c
  /\ last' = [op |-> "render"]
  /\ renders' = renders + 1
  /\ UNCHANGED <<stateHolderArr, currentStateIndex, sets, pollVars, hookVars>>

NextReact ==
  \/ \E c \in Components \cup {Conditional} : Mount(c)
  \/ \E init \in Values : UseState(init)
  \/ PassDone
  \/ \E s \in 1 .. Len(stateHolderArr), v \in Values : SetState(s, v)

(***************************************************************************)
(* useRequest (closure-based; part_004 and part_005 lines 6-36)            *)
(***************************************************************************)
Urls == {"u1", "u2"}
NoUrl == ""
NoTimer == 0
NoEvent == [op |-> "none"]

\* The sessions: Session is the one created by the useRequest call the model
\* follows, PeerSession one created by a second, separate useRequest call.
Session == 1
PeerSession == 2

\* The closure state of a session just created: timeoutId and currentUrl are
\* declared and not assigned, no fetch is in flight.
NewSession == [timeoutId |-> NoTimer, currentUrl |-> NoUrl, inflight |-> {}]

\* The state of the variant of polling-requests.md (lines 177-207) just
\* created: its closure variables, its fetches in flight, its pending timers,
\* the numbers of fetches and setTimeout calls it made, and whether its last
\* continuation invoked the callback.
NewGuarded ==
  [timeoutId |-> NoTimer, currentUrl |-> NoUrl, inflight |-> {}, timers |-> {},
   nreq |-> 0, ntimer |-> 0, callback |-> FALSE]

\* A pending timer of the window: the handle setTimeout returned, and the
\* closure () => makeRequest(url, callback) it will run, which belongs to the
\* session whose makeRequest created it.
Timer(id, url, owner) == [id |-> id, url |-> url, owner |-> owner]

InitPoll ==
  /\ timeoutId = NoTimer
  /\ currentUrl = NoUrl
  /\ inflight = {}
  /\ timers = {}
  /\ nreq = 0
  /\ ntimer = 0
  /\ calls = <<>>
  /\ ev = NoEvent
  /\ peer = NewSession
  /\ guarded = NewGuarded

\* Mutant of ClearTimeout: every pending timer is cancelled.
ClearTimeoutAll(ts, id) == {}

\* Mutant of ClearTimeout: nothing is cancelled.
ClearTimeoutNothing(ts, id) == ts

\* clearTimeout(id): the pending timer with that handle, if any, is cancelled;
\* any other id (undefined, 0, a timer that already fired) cancels nothing.
ClearTimeout(ts, id) == {t \in ts : t.id # id}

\* The request a makeRequest(url, callback) invocation issues at line 16; id is
\* the invocation's sequence number, by is who invoked it.
Request(id, url, by) == [id |-> id, url |-> url, by |-> by]

\* makeRequest up to its await (lines 11-16), with ts the timers pending when it
\* is entered: clear the timer timeoutId names, record the url, issue the fetch.
MakeRequest(url, by, ts) ==
  /\ nreq < MaxReq
  /\ timers' = ClearTimeout(ts, timeoutId)
  /\ currentUrl' = url
  /\ inflight' = inflight \cup {Request(nreq + 1, url, by)}
  /\ nreq' = nreq + 1
  /\ UNCHANGED <<timeoutId, ntimer>>

\* History: the request issued by the caller's latest start is still in flight.
PrevStartInFlight ==
  \E j \in 1 .. Len(calls) :
    /\ calls[j].op = "start"
    /\ \A k \in j + 1 .. Len(calls) : calls[k].op # "start"
    /\ \E r \in inflight : r.id = calls[j].id

\* The caller calls start(url, callback).
Start(url) ==
  /\ Len(calls) < MaxCalls
  /\ MakeRequest(url, "start", timers)
  /\ calls' = Append(calls, [op |-> "start", url |-> url, id |-> nreq + 1,
                             prev |-> PrevStartInFlight, tmark |-> ntimer])
  /\ ev' = [op |-> "start", url |-> url]
  /\ UNCHANGED <<peer, reactVars, hookVars>>

\* The timers pending once timer t of ts has fired: a setTimeout timer (line
\* 27) fires once.
SetTimeoutFired(ts, t) == ts \ {t}

\* A pending timer fires: its callback () => makeRequest(url, callback) runs
\* (line 27). A fired timer is no longer pending.
TimerFire(t) ==
  /\ t \in timers
  /\ t.owner = Session
  /\ MakeRequest(t.url, "timer", SetTimeoutFired(timers, t))
  /\ ev' = [op |-> "fire", url |-> t.url, timer |-> t.id]
  /\ UNCHANGED <<calls, peer, reactVars, hookVars>>

\* Mutant of Proceeds: the staleness check is inverted.
ProceedsInverted(url, cur) == url # cur

\* Mutant of Proceeds: no staleness check.
ProceedsAlways(url, cur) == TRUE

\* The staleness check of lines 21-24: the continuation goes on to setTimeout
\* iff the url it was invoked with is still currentUrl.
Proceeds(url, cur) == url = cur

\* Whether the continuation invokes callback(response.data) (line 19): always,
\* the call comes before the staleness check.
InvokesCallback(url, cur) == TRUE

\* axios.get(url) resolves: the continuation of makeRequest runs (lines 18-27):
\* callback, staleness check, setTimeout.
Resolve(r) ==
  /\ r \in inflight
  /\ inflight' = inflight \ {r}
  /\ IF Proceeds(r.url, currentUrl)
       THEN /\ ntimer < MaxTimers
            /\ ntimer' = ntimer + 1
            /\ timeoutId' = ntimer + 1
            /\ timers' = timers \cup {Timer(ntimer + 1, r.url, Session)}
       ELSE UNCHANGED <<ntimer, timeoutId, timers>>
  /\ ev' = [op |-> "resolve", req |-> r, cur |-> currentUrl,
            callback |-> InvokesCallback(r.url, currentUrl),
            scheduled |-> IF Proceeds(r.url, currentUrl) THEN ntimer + 1 ELSE NoTimer]
  /\ UNCHANGED <<currentUrl, nreq, calls, peer, reactVars, hookVars>>

\* Whether a rejected fetch is caught, so that the continuation still runs the
\* staleness check and setTimeout: makeRequest has no try/catch, the await
\* throws and the async function ends there.
CatchesRejection == FALSE

\* axios.get(url) rejects.
Reject(r) ==
  /\ r \in inflight
  /\ inflight' = inflight \ {r}
  /\ IF CatchesRejection /\ Proceeds(r.url, currentUrl)
       THEN /\ ntimer < MaxTimers
            /\ ntimer' = ntimer + 1
            /\ timeoutId' = ntimer + 1
            /\ timers' = timers \cup {Timer(ntimer + 1, r.url, Session)}
       ELSE UNCHANGED <<ntimer, timeoutId, timers>>
  /\ ev' = [op |-> "reject", req |-> r, cur |-> currentUrl,
            callback |-> FALSE,
            scheduled |-> IF CatchesRejection /\ Proceeds(r.url, currentUrl)
                            THEN ntimer + 1 ELSE NoTimer]
  /\ UNCHANGED <<currentUrl, nreq, calls, peer, reactVars, hookVars>>

\* History: the handle of the pending timer that clearTimeout(id) cancels,
\* NoTimer when it cancels none.
Cancelled(ts, id) == IF \E t \in ts : t.id = id THEN id ELSE NoTimer

\* History: the latest fetch of currentUrl in flight (0: none is).
LiveFetch ==
  LET ids == {r.id : r \in {q \in inflight : q.url = currentUrl}}
  IN IF ids = {} THEN 0 ELSE CHOOSE i \in ids : \A k \in ids : k <= i

\* The caller calls stop() (lines 30-33).
Stop ==
  /\ Len(calls) < MaxCalls
  /\ timers' = ClearTimeout(timers, timeoutId)
  /\ timeoutId' = 0
  /\ calls' = Append(calls, [op |-> "stop", busy |-> inflight # {},
                             cancelled |-> Cancelled(timers, timeoutId),
                             live |-> LiveFetch])
  /\ ev' = [op |-> "stop"]
  /\ UNCHANGED <<currentUrl, inflight, nreq, ntimer, peer, reactVars, hookVars>>

\* The session is used on its own: the variant of polling-requests.md is not run.
OneVariant == UNCHANGED guarded

NextPoll ==
  \/ \E u \in Urls : Start(u) /\ OneVariant
  \/ Stop /\ OneVariant
  \/ \E r \in inflight : Resolve(r) /\ OneVariant
  \/ \E r \in inflight : Reject(r) /\ OneVariant
  \/ \E t \in timers : TimerFire(t) /\ OneVariant

\* With setState calls inside component bodies, MyReact.render is called at
\* most MaxReMounts times and setState at most MaxReSets times.
ReentrantLimit ==
  /\ mounts' <= MaxReMounts
  /\ sets' <= MaxReSets

\* MyReact with components whose body may invoke a setter during a pass. Their
\* useState calls pass the initial value Counter's calls pass.
NextReentrant ==
  \/ \E c \in {Counter, Conditional} : Mount(c) /\ ReentrantLimit
  \/ UseState(CounterInit)
  \/ PassDone
  \/ \E s \in 1 .. Len(stateHolderArr), v \in Values : SetState(s, v) /\ ReentrantLimit
  \/ \E s \in 1 .. Len(stateHolderArr), v \in Values :
       SetStateInBody(s, v) /\ ReentrantLimit

(***************************************************************************)
(* A second session, created by a separate useRequest call. Its timeoutId  *)
(* and currentUrl are its own closure variables (peer); the timer table of *)
(* the window (timers), with its handles, is shared by the two sessions.   *)
(***************************************************************************)

\* makeRequest of the second session up to its await (lines 11-16).
PeerMakeRequest(url, by, ts) ==
  /\ nreq < MaxReq
  /\ timers' = ClearTimeout(ts, peer.timeoutId)
  /\ peer' = [peer EXCEPT !.currentUrl = url,
                          !.inflight = @ \cup {Request(nreq + 1, url, by)}]
  /\ nreq' = nreq + 1
  /\ UNCHANGED ntimer

\* The caller of the second session calls its start(url, callback).
PeerStart(url) ==
  /\ PeerMakeRequest(url, "start", timers)
  /\ ev' = [op |-> "peer"]
  /\ UNCHANGED <<timeoutId, currentUrl, inflight, calls, reactVars, hookVars>>

\* A pending timer of the second session fires (line 27).
PeerTimerFire(t) ==
  /\ t \in timers
  /\ t.owner = PeerSession
  /\ PeerMakeRequest(t.url, "timer", timers \ {t})
  /\ ev' = [op |-> "peer"]
  /\ UNCHANGED <<timeoutId, currentUrl, inflight, calls, reactVars, hookVars>>

\* A fetch of the second session resolves (lines 18-27).
PeerResolve(r) ==
  /\ r \in peer.inflight
  /\ IF Proceeds(r.url, peer.currentUrl)
       THEN /\ ntimer < MaxTimers
            /\ ntimer' = ntimer + 1
            /\ timers' = timers \cup {Timer(ntimer + 1, r.url, PeerSession)}
            /\ peer' = [peer EXCEPT !.inflight = @ \ {r}, !.timeoutId = ntimer + 1]
       ELSE /\ peer' = [peer EXCEPT !.inflight = @ \ {r}]
            /\ UNCHANGED <<ntimer, timers>>
  /\ ev' = [op |-> "peer"]
  /\ UNCHANGED <<timeoutId, currentUrl, inflight, nreq, calls, reactVars, hookVars>>

\* A fetch of the second session rejects: its makeRequest ends at the await.
PeerReject(r) ==
  /\ r \in peer.inflight
  /\ peer' = [peer EXCEPT !.inflight = @ \ {r}]
  /\ ev' = [op |-> "peer"]
  /\ UNCHANGED <<timeoutId, currentUrl, inflight, timers, nreq, ntimer, calls,
                 reactVars, hookVars>>

\* The caller of the second session calls its stop() (lines 30-33).
PeerStop ==
  /\ timers' = ClearTimeout(timers, peer.timeoutId)
  /\ peer' = [peer EXCEPT !.timeoutId = 0]
  /\ ev' = [op |-> "peer"]
  /\ UNCHANGED <<timeoutId, currentUrl, inflight, nreq, ntimer, calls, reactVars, hookVars>>

NextPeer ==
  \/ \E u \in Urls : PeerStart(u)
  \/ PeerStop
  \/ \E r \in peer.inflight : PeerResolve(r)
  \/ \E r \in peer.inflight : PeerReject(r)
  \/ \E t \in timers : PeerTimerFire(t)

\* The two sessions together issue at most MaxJointReq fetches and schedule
\* at most MaxJointTimers timers, and the first session's caller makes at
\* most MaxJointCalls calls.
JointLimit ==
  /\ nreq' <= MaxJointReq
  /\ ntimer' <= MaxJointTimers
  /\ Len(calls') <= MaxJointCalls
  /\ OneVariant

NextTwoSessions ==
  \/ \E u \in Urls : Start(u) /\ JointLimit
  \/ Stop /\ JointLimit
  \/ \E r \in inflight : Resolve(r) /\ JointLimit
  \/ \E r \in inflight : Reject(r) /\ JointLimit
  \/ \E t \in timers : TimerFire(t) /\ JointLimit
  \/ \E u \in Urls : PeerStart(u) /\ JointLimit
  \/ PeerStop /\ JointLimit
  \/ \E r \in peer.inflight : PeerResolve(r) /\ JointLimit
  \/ \E r \in peer.inflight : PeerReject(r) /\ JointLimit
  \/ \E t \in timers : PeerTimerFire(t) /\ JointLimit

(***************************************************************************)
(* useRequest with the staleness check before the callback                 *)
(* (polling-requests.md lines 177-207), run on the inputs of the session:  *)
(* the same start and stop calls, the same outcome for the fetch with the  *)
(* same number, the same timers firing. Each operator maps the variant's   *)
(* state g to its state after the operation.                               *)
(***************************************************************************)

\* The continuation of the session's makeRequest (part_004 lines 18-27) when
\* the callback it invokes calls start(u, callback) itself: the callback runs
\* first, so the makeRequest it calls has cleared the timer and set currentUrl
\* to u before the staleness check is made.
ResolveCallbackStarts(r, u) ==
  /\ r \in inflight
  /\ nreq < MaxReq
  /\ Len(calls) < MaxCalls
  /\ currentUrl' = u
  /\ inflight' = (inflight \ {r}) \cup {Request(nreq + 1, u, "callback")}
  /\ nreq' = nreq + 1
  /\ IF Proceeds(r.url, u)
       THEN /\ ntimer < MaxTimers
            /\ ntimer' = ntimer + 1
            /\ timeoutId' = ntimer + 1
            /\ timers' = ClearTimeout(timers, timeoutId)
                           \cup {Timer(ntimer + 1, r.url, Session)}
       ELSE /\ timers' = ClearTimeout(timers, timeoutId)
            /\ UNCHANGED <<ntimer, timeoutId>>
  /\ calls' = Append(calls, [op |-> "start", url |-> u, id |-> nreq + 1,
                             prev |-> PrevStartInFlight, tmark |-> ntimer])
  /\ ev' = [op |-> "resolve", req |-> r, cur |-> currentUrl,
            callback |-> InvokesCallback(r.url, currentUrl),
            scheduled |-> IF Proceeds(r.url, u) THEN ntimer + 1 ELSE NoTimer]
  /\ UNCHANGED <<peer, reactVars, hookVars>>

\* makeRequest up to its await (polling-requests.md lines 182-187).
GuardedMakeRequest(g, url, by) ==
  [g EXCEPT !.timers = ClearTimeout(g.timers, g.timeoutId),
            !.currentUrl = url,
            !.inflight = g.inflight \cup {Request(g.nreq + 1, url, by)},
            !.nreq = g.nreq + 1]

\* timeoutId = setTimeout(() => makeRequest(url, callback), timeIntervalMs)
\* (polling-requests.md line 198).
GuardedSetTimeout(g, url) ==
  [g EXCEPT !.ntimer = g.ntimer + 1,
            !.timeoutId = g.ntimer + 1,
            !.timers = g.timers \cup {Timer(g.ntimer + 1, url, Session)}]

\* The staleness check of polling-requests.md lines 189-192, made before the
\* callback is invoked.
GuardedProceeds(url, cur) == url = cur

\* start(url, callback).
GuardedStart(g, url) == GuardedMakeRequest(g, url, "start")

\* A pending timer fires and runs makeRequest(url, callback).
GuardedTimerFire(g, t) ==
  GuardedMakeRequest([g EXCEPT !.timers = SetTimeoutFired(g.timers, t)], t.url, "timer")

\* The fetch r resolves: staleness check, callback, setTimeout
\* (polling-requests.md lines 189-198).
GuardedResolve(g, r) ==
  LET back == [g EXCEPT !.inflight = g.inflight \ {r}]
  IN IF GuardedProceeds(r.url, g.currentUrl)
       THEN GuardedSetTimeout([back EXCEPT !.callback = TRUE], r.url)
       ELSE [back EXCEPT !.callback = FALSE]

\* The fetch r resolves and the callback, when it is invoked, calls
\* start(u, callback): the staleness check has been made by then, and
\* setTimeout follows the callback's return.
GuardedResolveCallbackStarts(g, r, u) ==
  LET back == [g EXCEPT !.inflight = g.inflight \ {r}]
  IN IF GuardedProceeds(r.url, g.currentUrl)
       THEN GuardedSetTimeout(
              GuardedMakeRequest([back EXCEPT !.callback = TRUE], u, "callback"), r.url)
       ELSE [back EXCEPT !.callback = FALSE]

\* The fetch r rejects: the await throws, and makeRequest has no try/catch.
GuardedReject(g, r) == [g EXCEPT !.inflight = g.inflight \ {r}, !.callback = FALSE]

\* stop() (polling-requests.md lines 201-204).
GuardedStop(g) ==
  [g EXCEPT !.timers = ClearTimeout(g.timers, g.timeoutId), !.timeoutId = 0]

\* The two variants receive the same input. A callback that calls start is an
\* input of both only when both invoke it, which the session always does and
\* the other variant does for a response that passes its check.
EquivStart(u) == Start(u) /\ guarded' = GuardedStart(guarded, u)

EquivStop == Stop /\ guarded' = GuardedStop(guarded)

EquivResolve(r) ==
  /\ r \in guarded.inflight
  /\ Resolve(r)
  /\ guarded' = GuardedResolve(guarded, r)

EquivResolveCallbackStarts(r, u) ==
  /\ r \in guarded.inflight
  /\ GuardedProceeds(r.url, guarded.currentUrl)
  /\ ResolveCallbackStarts(r, u)
  /\ guarded' = GuardedResolveCallbackStarts(guarded, r, u)

EquivReject(r) ==
  /\ r \in guarded.inflight
  /\ Reject(r)
  /\ guarded' = GuardedReject(guarded, r)

EquivTimerFire(t) ==
  /\ t \in guarded.timers
  /\ TimerFire(t)
  /\ guarded' = GuardedTimerFire(guarded, t)

NextEquiv ==
  \/ \E u \in Urls : EquivStart(u)
  \/ EquivStop
  \/ \E r \in inflight : EquivResolve(r)
  \/ \E r \in inflight, u \in Urls : EquivResolveCallbackStarts(r, u)
  \/ \E r \in inflight : EquivReject(r)
  \/ \E t \in timers : EquivTimerFire(t)

(***************************************************************************)
(* useRequest, useEffect variant (closures.md lines 276-332)               *)
(***************************************************************************)

InitHook ==
  /\ hookUrl = NoUrl
  /\ data = 0
  /\ nrender = 1
  /\ tids = <<NoTimer>>
  /\ effects = <<>>
  /\ fetches = {}
  /\ etimers = {}
  /\ nfetch = 0
  /\ nhandle = 0
  /\ hev = NoEvent

\* An effect run by the render `render` for `url`: its own `cancelled` flag and
\* makeRequest; it uses the timeoutId variable of that render.
Effect(u, render) == [url |-> u, render |-> render, cancelled |-> FALSE]

\* The fetch issued by makeRequest(url) of effect number eff (line 292).
Fetch(id, u, eff) == [id |-> id, url |-> u, eff |-> eff]

\* The effect whose cleanup React will run on the next url change: the last
\* effect run (0: none was run; the effect of the initial render returns at
\* line 285 without a cleanup).
CurrentEffect == Len(effects)

\* Mutant of Cleanup: the cleanup does not set the flag.
CleanupKeepsFlag(effs, e) == effs

\* The cleanup of effect e (lines 315-319): cancelled = true.
Cleanup(effs, e) == [effs EXCEPT ![e].cancelled = TRUE]

\* A component render: the hook body runs again and declares a fresh
\* timeoutId (line 281), not assigned.
Render(ts) == Append(ts, NoTimer)

\* start(url) (lines 322-324): setUrl(url). A url equal to the current state
\* leaves everything as it is; a new url re-renders the hook, React runs the
\* cleanup of the previous effect (cancelled = true, clearInterval(timeoutId)
\* on the timeoutId of that effect's render) and then the new effect, which
\* calls makeRequest(url).
HookStart(u) ==
  /\ u # hookUrl
  /\ Len(effects) < MaxEffects
  /\ nfetch < MaxFetches
  /\ hookUrl' = u
  /\ nrender' = nrender + 1
  /\ tids' = Render(tids)
  /\ LET e == CurrentEffect
         cleaned == IF e = 0 THEN effects ELSE Cleanup(effects, e)
     IN /\ effects' = Append(cleaned, Effect(u, nrender + 1))
        /\ etimers' = IF e = 0 THEN etimers
                               ELSE ClearTimeout(etimers, tids[effects[e].render])
        /\ fetches' = fetches \cup {Fetch(nfetch + 1, u, Len(effects) + 1)}
  /\ nfetch' = nfetch + 1
  /\ hev' = [op |-> "start", url |-> u]
  /\ UNCHANGED <<data, nhandle, reactVars, pollVars>>

\* Mutant of SetsData: the rejection reaches setData.
SetsDataOnReject(rejected, cancelled) == ~cancelled

\* Mutant of SetsData: no cancelled check.
SetsDataIfCancelled(rejected, cancelled) == ~rejected

\* Whether the continuation of makeRequest calls setData (lines 290-301): only
\* if the await did not throw and the effect is not cancelled.
SetsData(rejected, cancelled) == ~rejected /\ ~cancelled

\* Mutant of SchedulesNext: no try/catch, a rejection ends makeRequest.
SchedulesNextNoCatch(rejected, cancelled) == ~rejected /\ ~cancelled

\* Whether the continuation of makeRequest reaches setTimeout (lines 303-310):
\* not after the `return` of a cancelled effect whose fetch resolved (line
\* 296); a rejection is caught by the empty catch (line 302), which skips the
\* cancelled check, and execution goes on to setTimeout.
SchedulesNext(rejected, cancelled) == rejected \/ ~cancelled

\* The continuation of makeRequest after its await (lines 292-310), the fetch
\* r having resolved or rejected. setData re-renders the hook.
Continuation(r, rejected) ==
  LET c == effects[r.eff].cancelled
      stored == SetsData(rejected, c)
      next == SchedulesNext(rejected, c)
      rendered == IF stored THEN Render(tids) ELSE tids
  IN /\ r \in fetches
     /\ fetches' = fetches \ {r}
     /\ data' = IF stored THEN r.id ELSE data
     /\ nrender' = IF stored THEN nrender + 1 ELSE nrender
     /\ IF next
          THEN /\ nhandle < MaxHandles
               /\ nhandle' = nhandle + 1
               /\ etimers' = etimers \cup {Fetch(nhandle + 1, r.url, r.eff)}
               /\ tids' = [rendered EXCEPT ![effects[r.eff].render] = nhandle + 1]
          ELSE /\ tids' = rendered
               /\ UNCHANGED <<nhandle, etimers>>
     /\ hev' = [op |-> IF rejected THEN "reject" ELSE "resolve", fetch |-> r,
                cancelled |-> c, setData |-> stored,
                scheduled |-> IF next THEN nhandle + 1 ELSE NoTimer]
     /\ UNCHANGED <<hookUrl, effects, nfetch, reactVars, pollVars>>

\* axios.get(url) resolves.
HookResolve(r) == Continuation(r, FALSE)

\* axios.get(url) rejects.
HookReject(r) == Continuation(r, TRUE)

\* A pending timer fires (lines 304-310): a cancelled effect's callback
\* returns, any other calls makeRequest(url).
HookTimerFire(t) ==
  /\ t \in etimers
  /\ etimers' = etimers \ {t}
  /\ IF effects[t.eff].cancelled
       THEN UNCHANGED <<fetches, nfetch>>
       ELSE /\ nfetch < MaxFetches
            /\ fetches' = fetches \cup {Fetch(nfetch + 1, t.url, t.eff)}
            /\ nfetch' = nfetch + 1
  /\ hev' = [op |-> "fire", timer |-> t, cancelled |-> effects[t.eff].cancelled]
  /\ UNCHANGED <<hookUrl, data, nrender, tids, effects, nhandle, reactVars, pollVars>>

\* History: a timer of an effect that is not cancelled is pending.
LiveTimerPending == \E t \in etimers : ~effects[t.eff].cancelled

\* The caller calls the stop() returned by the latest render (lines 326-329):
\* clearTimeout(timeoutId); timeoutId = 0, on that render's timeoutId.
HookStop ==
  /\ etimers' = ClearTimeout(etimers, tids[nrender])
  /\ tids' = [tids EXCEPT ![nrender] = 0]
  /\ hev' = [op |-> "stop", pending |-> LiveTimerPending]
  /\ UNCHANGED <<hookUrl, data, nrender, effects, fetches, nfetch, nhandle,
                 reactVars, pollVars>>

NextHook ==
  \/ \E u \in Urls : HookStart(u)
  \/ HookStop
  \/ \E r \in fetches : HookResolve(r)
  \/ \E r \in fetches : HookReject(r)
  \/ \E t \in etimers : HookTimerFire(t)

\* A program uses one variant of useRequest: the closure-based one or the
\* useEffect-based one.
NextVariants ==
  \/ hev = NoEvent /\ NextPoll
  \/ ev = NoEvent /\ NextHook

(***************************************************************************)
(* Specifications                                                          *)
(***************************************************************************)
Init == InitReact /\ InitPoll /\ InitHook

MyReactSpec == Init /\ [][NextReact]_vars
ReentrantSpec == Init /\ [][NextReentrant]_vars

UseRequestSpec == Init /\ [][NextPoll]_vars
TwoSessionsSpec == Init /\ [][NextTwoSessions]_vars
UseEffectSpec == Init /\ [][NextHook]_vars

\* The closure-based session when every fetch resolves successfully, and does
\* so eventually, and every pending timer eventually fires unless cancelled.
NextLive ==
  \/ \E u \in Urls : Start(u) /\ OneVariant
  \/ Stop /\ OneVariant
  \/ \E r \in inflight : Resolve(r) /\ OneVariant
  \/ \E t \in timers : TimerFire(t) /\ OneVariant

Fairness ==
  /\ \A id \in 1 .. MaxReq :
       WF_vars(\E r \in inflight : r.id = id /\ Resolve(r) /\ OneVariant)
  /\ \A id \in 1 .. MaxTimers :
       WF_vars(\E t \in timers : t.id = id /\ TimerFire(t) /\ OneVariant)

LiveSpec == Init /\ [][NextLive]_vars /\ Fairness
VariantsSpec == Init /\ [][NextVariants]_vars
EquivSpec == Init /\ [][NextEquiv]_vars

(***************************************************************************)
(* MyReact: properties (checked under MyReactSpec)                         *)
(***************************************************************************)

\* The innermost running pass has made all the useState calls of its component.
PassComplete == ~Idle /\ Len(Top.log) = Top.comp

\* C1 (slot stability): for a component mounted once, in every render pass
\* (the initial one and every one a setState triggers) the K-th useState call
\* is served slot K-1 and returns the value that slot currently stores.
C1_SlotStability ==
  (mounts = 1 /\ component \in Components /\ ~Idle) =>
    \A k \in 1 .. Len(Top.log) :
      /\ Top.log[k].idx = k - 1
      /\ Top.log[k].ret = stateHolderArr[k]

\* C1 witness: a two-call component mounted once has completed a pass that a
\* setState triggered, and the two slots hold different values.
C1_Witness ==
  /\ mounts = 1
  /\ PassComplete
  /\ Top.comp = 2
  /\ Top.trig.op = "setState"
  /\ stateHolderArr[1] # stateHolderArr[2]

\* C2 (initial-value-once): a useState call made while the cursor points at an
\* existing slot changes no stored value and returns the stored value of that
\* slot, whatever initialValue it is passed.
C2_InitialValueOnce ==
  [][(currentStateIndex < Len(stateHolderArr) /\ \E init \in Values : UseState(init))
       => /\ stateHolderArr' = stateHolderArr
          /\ last'.ret = stateHolderArr[currentStateIndex + 1]]_vars

\* C2 witness: useState was served an existing slot whose stored value differs
\* from the initialValue passed.
C2_Witness ==
  /\ last.op = "useState"
  /\ ~last.created
  /\ last.init # last.ret

\* C3 (cursor reset): right after any setState the cursor is 0, and the very
\* next useState call is the first call of a pass and is served slot 0.
C3_CursorReset ==
  /\ last.op = "setState" => currentStateIndex = 0
  /\ (last.op = "useState" /\ last.afterSet) => (last.idx = 0 /\ last.call = 1)

\* C3 witness: the first useState call after a setState, with two slots existing
\* (the cursor was parked at 2 when the setter was invoked).
C3_Witness ==
  /\ last.op = "useState"
  /\ last.afterSet
  /\ Len(stateHolderArr) = 2
  /\ mounts = 1

\* C4 (two-slot scenario): Counter mounted once; after the setter of slot A (B)
\* is invoked with x, the next pass's first call returns x (A's value before)
\* and its second call returns B's value before (x).
C4_TwoSlots ==
  (mounts = 1 /\ PassComplete /\ Top.comp = Counter /\ Top.trig.op = "setState") =>
    /\ Top.trig.slot = 1 =>
         (Top.log[1].ret = Top.trig.val /\ Top.log[2].ret = Top.trig.before[2])
    /\ Top.trig.slot = 2 =>
         (Top.log[1].ret = Top.trig.before[1] /\ Top.log[2].ret = Top.trig.val)

\* C4 witness: both slots held 0, A's setter was invoked with 1, and the pass it
\* triggered is complete.
C4_Witness ==
  /\ mounts = 1
  /\ PassComplete
  /\ Top.comp = Counter
  /\ Top.trig.op = "setState"
  /\ Top.trig.slot = 1
  /\ Top.trig.val = 1
  /\ Top.trig.before = <<0, 0>>

\* C11 (no batching): every setState has, when it returns control to the
\* component body it renders, overwritten its slot, reset the cursor and started
\* exactly one render of the mounted component; the render host has been
\* invoked once per MyReact.render call and once per setState invocation
\* (1 + k times after one mount and k setState invocations).
C11_NoBatching ==
  /\ renders = mounts + sets
  /\ last.op = "setState" =>
       /\ Len(stack) = 1
       /\ Top.trig.op = "setState"
       /\ Top.comp = component
       /\ Top.log = <<>>
       /\ currentStateIndex = 0
       /\ stateHolderArr[last.slot] = last.val

\* C11 witness: one mount and two setState invocations, all renders finished.
C11_Witness ==
  /\ mounts = 1
  /\ sets = 2
  /\ renders = 3
  /\ Idle

\* C12 (cursor at pass start): whenever a render pass starts, triggered by a
\* setState or by MyReact.render, the cursor is 0.
C12_CursorZeroAtPassStart ==
  (~Idle /\ Top.log = <<>>) => currentStateIndex = 0

\* C13 (mount): MyReact.render(c) stores c and starts one render of it, and
\* every pass, in particular every one a setState triggers, renders the most
\* recently mounted component.
C13_RendersMounted ==
  /\ component = mounted
  /\ \A i \in 1 .. Len(stack) : stack[i].comp = mounted
  /\ last.op = "render" =>
       /\ Len(stack) = 1
       /\ Top.trig.op = "render"
       /\ Top.log = <<>>

\* C13 witness: after a second MyReact.render, of a one-call component where
\* more slots exist than it uses, a setState re-renders that component.
C13_Witness ==
  /\ mounts = 2
  /\ mounted = 1
  /\ Len(stateHolderArr) >= 3
  /\ ~Idle
  /\ Top.trig.op = "setState"
  /\ Top.comp = 1

\* C18 (idle state): for a component with N useState calls per pass mounted
\* once, at most N slots ever exist, only the initial render creates slots, and
\* whenever a pass is complete or no pass is running the cursor and the number
\* of slots are both N.
C18_IdleState ==
  (mounts = 1 /\ component \in Components) =>
    /\ Len(stateHolderArr) <= component
    /\ (Idle \/ PassComplete) =>
         (currentStateIndex = component /\ Len(stateHolderArr) = component)
    /\ (last.op = "useState" /\ last.created) => Top.trig.op = "render"

\* C18 witness: Counter mounted once is idle after a setState-triggered pass.
C18_Witness ==
  /\ mounts = 1
  /\ component = Counter
  /\ sets >= 1
  /\ Idle
  /\ currentStateIndex = 2

\* C19 (no error, silent call-order violations): the cursor never passes the
\* end of the array (so useState never reads an undefined stateHolder); a
\* useState call at the end of the array appends a slot holding its
\* initialValue and any other call leaves the array as it is; a pass that ends
\* before the last slot leaves the array as it is; slots are never removed.
C19_NoErrorSilentHazard ==
  [][/\ currentStateIndex' <= Len(stateHolderArr')
     /\ Len(stateHolderArr') >= Len(stateHolderArr)
     /\ (\E init \in Values : UseState(init)) =>
          IF currentStateIndex = Len(stateHolderArr)
            THEN stateHolderArr' = Append(stateHolderArr, last'.init)
            ELSE stateHolderArr' = stateHolderArr
     /\ PassDone => stateHolderArr' = stateHolderArr]_vars

\* C19 witness: a component mounted once makes, in a pass a setState
\* triggered, more useState calls than slots exist: the extra call created a
\* slot.
C19_Witness ==
  /\ mounts = 1
  /\ last.op = "useState"
  /\ last.created
  /\ Top.trig.op = "setState"

(***************************************************************************)
(* useRequest: properties (checked under UseRequestSpec)                   *)
(***************************************************************************)

\* The caller's latest call.
LastCall == calls[Len(calls)]

\* C5 (fencing): a request the caller started with urlA, whose response
\* arrives when the caller's latest call is a later start(urlB), urlB # urlA,
\* schedules no timer.
C5_Fencing ==
  (/\ ev.op = "resolve"
   /\ ev.req.by = "start"
   /\ LastCall.op = "start"
   /\ LastCall.url # ev.req.url
   /\ LastCall.id > ev.req.id) => ev.scheduled = NoTimer

\* C6 (resilience to failure): when a fetch rejects, the continuation still
\* runs the staleness check and, the url being current, schedules the next
\* fetch.
C6_RejectReschedules ==
  (ev.op = "reject" /\ ev.req.url = ev.cur) =>
    /\ ev.scheduled # NoTimer
    /\ Timer(ev.scheduled, ev.req.url, Session) \in timers

\* C7 (stop cancels future): once stop() was called with a fetch in flight, and
\* the caller made no call since, no timer fires.
C7_StopCancelsFuture ==
  ~(ev.op = "fire" /\ LastCall.op = "stop" /\ LastCall.busy)

\* The caller's calls so far are start(u1), then start(u2) with u2 # u1 made
\* while the first start's request was in flight, and nothing else.
Supersede ==
  /\ Len(calls) = 2
  /\ calls[1].op = "start"
  /\ calls[2].op = "start"
  /\ calls[1].url # calls[2].url
  /\ calls[2].prev

C9_OnlyLatestAccepted ==
  (ev.op = "resolve" /\ ev.scheduled # NoTimer) => ev.req.id = nreq

\* C10 (guarded callback): the callback is never invoked with the response of
\* a request whose url differs from currentUrl when the response arrives.
C10_CallbackOnlyIfCurrent ==
  (ev.op = "resolve" /\ ev.callback) => ev.req.url = ev.cur


\* C14 (stop): a stop() step removes exactly the pending timer timeoutId
\* names, sets timeoutId to 0 and leaves currentUrl and the fetches in flight
\* alone; with timeoutId already 0 (no timer recorded, or right after another
\* stop) it changes none of them; and a timer some stop() cancelled is never
\* pending again and never fires.
C14_StopCancels ==
  /\ [][Stop => /\ timers' = {t \in timers : t.id # timeoutId}
                /\ timeoutId' = 0
                /\ currentUrl' = currentUrl
                /\ inflight' = inflight
                /\ timeoutId = 0 => (timers' = timers /\ timeoutId' = timeoutId)]_vars
  /\ [](\A j \in 1 .. Len(calls) :
          (calls[j].op = "stop" /\ calls[j].cancelled # NoTimer) =>
            /\ \A t \in timers : t.id # calls[j].cancelled
            /\ ev.op = "fire" => ev.timer # calls[j].cancelled)

\* C14 witness: a stop() cancelled a pending timer, a second stop() in a row
\* found nothing to cancel, and another timer of the session has fired since.
C14_Witness ==
  /\ \E j \in 1 .. Len(calls) - 1 :
       /\ calls[j].op = "stop"
       /\ calls[j].cancelled # NoTimer
       /\ calls[j + 1].op = "stop"
       /\ calls[j + 1].cancelled = NoTimer
  /\ ev.op = "fire"

\* C15 (start cancels the pending next-fetch): no timer that was scheduled
\* before a start call fires after that call.
C15_StartCancelsPending ==
  ev.op = "fire" =>
    \A j \in 1 .. Len(calls) : calls[j].op = "start" => ev.timer > calls[j].tmark

\* The caller has called start, and its latest start call is calls[j].
IsLastStart(j) ==
  /\ j \in 1 .. Len(calls)
  /\ calls[j].op = "start"
  /\ \A k \in j + 1 .. Len(calls) : calls[k].op # "start"

\* C16 (stop and restart): a start(url) made after a stop() issues a fetch of
\* url at once, and the response to that fetch, arriving while that start is
\* the caller's latest call, schedules the next fetch.
C16_RestartResumes ==
  ((\E j \in 1 .. Len(calls) - 1 : calls[j].op = "stop") /\ LastCall.op = "start") =>
    /\ ev.op = "start" => Request(LastCall.id, LastCall.url, "start") \in inflight
    /\ (ev.op = "resolve" /\ ev.req.id = LastCall.id) => ev.scheduled # NoTimer

\* C20 (the caller's url is the one polled): from the caller's start(u) until
\* its next start call, currentUrl is u and every fetch issued is a fetch of u.
C20_PollsLatestStart ==
  \A j \in 1 .. Len(calls) :
    IsLastStart(j) =>
      /\ currentUrl = calls[j].url
      /\ \A r \in inflight : r.id >= calls[j].id => r.url = calls[j].url

\* The timers of session s pending in the window.
TimersOf(ts, s) == {t \in ts : t.owner = s}

\* C17 (session independence): a start, stop, response or timer firing of one
\* session leaves the other session's timeoutId, currentUrl and fetches in
\* flight as they are, and neither removes (cancels, fires) nor adds any of the
\* other session's pending timers.
C17_SessionIndependence ==
  [][/\ NextPoll => /\ peer' = peer
                    /\ TimersOf(timers', PeerSession) = TimersOf(timers, PeerSession)
     /\ NextPeer => /\ timeoutId' = timeoutId
                    /\ currentUrl' = currentUrl
                    /\ inflight' = inflight
                    /\ TimersOf(timers', Session) = TimersOf(timers, Session)]_vars

\* C17 witness: both sessions had a timer pending; the first session's stop()
\* has just cancelled its own and the second session's is still pending and
\* recorded in its timeoutId.
C17_Witness ==
  /\ ev.op = "stop"
  /\ LastCall.cancelled # NoTimer
  /\ \E t \in timers : t.owner = PeerSession /\ t.id = peer.timeoutId

\* C21 (stop with nothing in flight): once stop() was called with no fetch in
\* flight, and the caller made no call since, no timer fires (no fetch is
\* issued).
C21_StopIdleNoFetch ==
  ~(ev.op = "fire" /\ LastCall.op = "stop" /\ ~LastCall.busy)

\* C22 (stop race): a fetch of currentUrl that was in flight when the caller
\* called stop(), the caller having made no call since, passes the staleness
\* check when it resolves: the callback is invoked and a timer is scheduled and
\* recorded in timeoutId.
C22_StopRace ==
  (/\ ev.op = "resolve"
   /\ LastCall.op = "stop"
   /\ ev.req.id = LastCall.live) =>
     /\ ev.callback
     /\ ev.scheduled # NoTimer
     /\ timeoutId = ev.scheduled

\* C24 (single timer): at most one timer is pending, and a pending timer is
\* the one timeoutId records.
C24_SingleTimer ==
  /\ Cardinality(timers) <= 1
  /\ \A t \in timers : t.id = timeoutId

\* The caller has called start once and made no other call.
OneStart == Len(calls) = 1 /\ calls[1].op = "start"

\* C25 (latency self-correction): in a session started once and never stopped,
\* at most one fetch is in flight, no timer is pending while a fetch is in
\* flight, every response schedules the one pending timer, and every fetch
\* after the first is issued by that timer firing.
C25_SelfCorrection ==
  OneStart =>
    /\ Cardinality(inflight) + Cardinality(timers) <= 1
    /\ \A r \in inflight : r.id > calls[1].id => r.by = "timer"
    /\ \A t \in timers : t.id = timeoutId /\ t.url = calls[1].url
    /\ ev.op = "fire" => (timers = {} /\ inflight = {Request(nreq, ev.url, "timer")})
    /\ ev.op = "resolve" =>
         /\ inflight = {}
         /\ ev.scheduled = ntimer
         /\ timers = {Timer(ev.scheduled, calls[1].url, Session)}

\* C25 witness: started once, the second timer of the chain has just fired.
C25_Witness ==
  /\ OneStart
  /\ ev.op = "fire"
  /\ ev.timer = 2
  /\ nreq = 3

\* The caller's latest call is its n-th, a start(url), and no fetch of url is
\* in flight.
StartedNotFetching(n) ==
  IF Len(calls) = n
    THEN IF calls[n].op = "start"
           THEN \A r \in inflight : r.url # calls[n].url
           ELSE FALSE
    ELSE FALSE

\* The caller has made a call after its n-th, or its n-th is a start(url) and
\* a fetch of url is in flight, or a timer of url is pending that only the
\* bound on the number of fetches keeps from issuing one.
FetchingOrCalled(n) ==
  IF Len(calls) = n
    THEN IF calls[n].op = "start"
           THEN \/ \E r \in inflight : r.url = calls[n].url
                \/ nreq = MaxReq /\ \E t \in timers : t.url = calls[n].url
           ELSE FALSE
    ELSE Len(calls) > n

\* While the caller's latest call is a start(url), a fetch of url is in flight
\* or a timer of url is pending: the chain of url has not ended.
ChainAlive ==
  \A j \in 1 .. Len(calls) :
    (j = Len(calls) /\ calls[j].op = "start") =>
      \/ \E r \in inflight : r.url = calls[j].url
      \/ \E t \in timers : t.url = calls[j].url

\* C26 (liveness): when every fetch resolves and every timer fires, then as
\* long as the caller's latest call is a start(url) the chain of url has not
\* ended, and whenever no fetch of url is in flight, later a fetch of url is in
\* flight (or only the bound on the number of fetches keeps a pending timer of
\* url from issuing it), unless the caller makes another call.
C26_Liveness ==
  /\ []ChainAlive
  /\ \A n \in 1 .. MaxCalls : StartedNotFetching(n) ~> FetchingOrCalled(n)

\* C27 (hung request): while a fetch issued by the caller's latest start, or
\* by a timer since, has not resolved, the session issues no further fetch: the
\* unresolved fetch is the last one issued.
C27_HungBlocks ==
  \A j \in 1 .. Len(calls) :
    IsLastStart(j) => \A r \in inflight : r.id >= calls[j].id => r.id = nreq

\* C23 (failure never updates the data): in either variant of useRequest a
\* rejected fetch invokes neither the callback (closure-based) nor setData
\* (useEffect-based); the data stored is that of a fetch that resolved.
C23_RejectNoCallback ==
  /\ ev.op = "reject" => ~ev.callback
  /\ hev.op = "reject" => (~hev.setData /\ data # hev.fetch.id)

\* C23 witness: in the useEffect variant a fetch of the current effect has
\* rejected and the data of an earlier, successful fetch is still stored.
C23_Witness ==
  /\ hev.op = "reject"
  /\ ~hev.cancelled
  /\ data # 0

\* C28 (failure is swallowed, polling goes on): in the useEffect variant a
\* rejected fetch does not call setData and, its effect not being cancelled,
\* schedules a timer for the same url; a timer of an effect that is not
\* cancelled issues, when it fires, the next fetch of that url.
C28_RejectSwallowed ==
  /\ hev.op = "reject" =>
       /\ ~hev.setData
       /\ ~hev.cancelled =>
            /\ hev.scheduled # NoTimer
            /\ Fetch(hev.scheduled, hev.fetch.url, hev.fetch.eff) \in etimers
  /\ (hev.op = "fire" /\ ~hev.cancelled) =>
       Fetch(nfetch, hev.timer.url, hev.timer.eff) \in fetches

\* C28 witness: the third consecutive fetch of the only effect has rejected,
\* no fetch ever succeeded, and the next timer is scheduled.
C28_Witness ==
  /\ Len(effects) = 1
  /\ nfetch = 3
  /\ data = 0
  /\ hev.op = "reject"
  /\ hev.scheduled # NoTimer

\* The fetches in flight that effect e issued.
FetchesOf(fs, e) == {f \in fs : f.eff = e}

\* C29 (cancelled effect): an effect whose cleanup has run never calls setData
\* and never issues another fetch, whether its fetch resolves or rejects and
\* whatever timers are pending; at any time at most one effect is not
\* cancelled: the last one run, and it is the effect of the current url.
C29_CancelledChain ==
  /\ [][\A e \in 1 .. Len(effects) :
          effects[e].cancelled =>
            /\ FetchesOf(fetches', e) \subseteq FetchesOf(fetches, e)
            /\ (\E r \in FetchesOf(fetches, e) : HookResolve(r) \/ HookReject(r)) =>
                 (data' = data /\ nrender' = nrender)]_vars
  /\ [](\A e \in 1 .. Len(effects) :
          /\ ~effects[e].cancelled => (e = Len(effects) /\ effects[e].url = hookUrl)
          /\ effects[e].cancelled => e < Len(effects))

\* C29 witness: a timer of a cancelled effect has fired, issuing no fetch;
\* three fetches were issued so far and none of them stored its data.
C29_Witness ==
  /\ hev.op = "fire"
  /\ hev.cancelled
  /\ data = 0
  /\ nfetch >= 3

\* C30 (stop cancels the pending timer): after the stop() of the latest render
\* no timer of an effect that is not cancelled is pending.
C30_StopCancelsTimer ==
  hev.op = "stop" => ~LiveTimerPending

\* C31 (setState frame): a setState of slot K with newValue stores newValue in
\* slot K and leaves the number of slots, the value of every other slot and
\* the mounted component as they are (it also resets the cursor, C3); this is
\* so whichever render handed out the setter.
C31_SetStateFrame ==
  [][\A s \in 1 .. Len(stateHolderArr), v \in Values :
       SetState(s, v) =>
         /\ Len(stateHolderArr') = Len(stateHolderArr)
         /\ stateHolderArr'[s] = v
         /\ \A k \in 1 .. Len(stateHolderArr) :
              k # s => stateHolderArr'[k] = stateHolderArr[k]
         /\ component' = component]_vars

\* C31 witness: after at least two re-renders since its stateHolder was
\* created, the setter of the first of two slots has stored a value that
\* differs from the value of the second slot.
C31_Witness ==
  /\ last.op = "setState"
  /\ last.slot = 1
  /\ sets = 3
  /\ Len(stateHolderArr) = 2
  /\ stateHolderArr[2] # last.val

\* C32: in every reachable state, whatever the interleaving of MyReact.render,
\* useState and setState calls (passes of a component whose number of useState
\* calls varies and setState calls made inside a component body included), the
\* cursor is between 0 and the number of stateHolders, so the stateHolder a
\* useState call reads exists and the call returns a stored value; and no step
\* makes the array shorter.
C32_CursorInRange ==
  /\ [](/\ currentStateIndex \in 0 .. Len(stateHolderArr)
        /\ IF last.op = "useState"
             THEN /\ last.idx + 1 \in 1 .. Len(stateHolderArr)
                  /\ last.ret \in Values
             ELSE TRUE)
  /\ [][Len(stateHolderArr') >= Len(stateHolderArr)]_vars

\* C32 witness: during a pass of the component with a varying number of calls,
\* mounted second, a setState call made inside the body started a nested pass,
\* and a useState call of that nested pass has just been served at the end of
\* the array.
C32_Witness ==
  /\ Len(stack) = 2
  /\ Top.comp = Conditional
  /\ mounts = 2
  /\ last.op = "useState"
  /\ currentStateIndex = Len(stateHolderArr)

\* C33: when a component was mounted once and its body makes N useState calls
\* per pass (Counter, N = 2), a setState call made inside the body between two
\* useState calls does not disturb the interrupted pass: the array never has
\* more than N stateHolders, and the k-th useState call of every pass, the
\* interrupted one included, is served the stateHolder at index k - 1.
C33_Reentrancy ==
  (mounts = 1 /\ component = Counter) =>
    /\ Len(stateHolderArr) <= Counter
    /\ \A p \in 1 .. Len(stack) :
         \A k \in 1 .. Len(stack[p].log) : stack[p].log[k].idx = k - 1

\* C34: run on the same start and stop calls, fetch outcomes and timer firings,
\* the useRequest that checks staleness before invoking the callback and the
\* one that invokes the callback first have issued the same fetches, hold the
\* same pending timers and the same currentUrl and timeoutId; the only
\* difference is that the former does not invoke the callback for a stale
\* response.
C34_VariantEquivalence ==
  /\ guarded.timeoutId = timeoutId
  /\ guarded.currentUrl = currentUrl
  /\ guarded.inflight = inflight
  /\ guarded.timers = timers
  /\ guarded.nreq = nreq
  /\ guarded.ntimer = ntimer
  /\ IF ev.op = "resolve"
       THEN /\ ev.callback
            /\ guarded.callback = (ev.req.url = ev.cur)
       ELSE TRUE
====
